---- MODULE Spec2Model ----
(***************************************************************************)
(* Market-cap aggregation layer of the token chart: the aggregator         *)
(* (fetchTokenMarketCap, fetchAllTokensMarketCap), the DexPaprika adapter  *)
(* with its TTL cache and the snapshot-only DexScreener adapter.           *)
(*                                                                         *)
(* JavaScript strings that are joined into cache keys are sequences of     *)
(* atoms, so that a template literal is a concatenation.  JSON values and  *)
(* results are records tagged with a kind; null is the record NULL.        *)
(* One step of a call runs from the resumption of an await to the next     *)
(* suspension, as the single-threaded event loop runs it.                  *)
(***************************************************************************)
EXTENDS Integers, Sequences, FiniteSets, TLC

\* ------------------------------------------------------------------ bounds

\* Number of fetchTokenMarketCap calls made, by the batch loop or directly;
\* a token list is at most this long.
MaxCalls == 3

\* Number of fetchTokenMarketCap calls made when the adapters are run against
\* every upstream answer.
AdapterCalls == 1

\* Number of fetchTokenMarketCap calls made while the clock advances.
TimedCalls == 2

\* Number of fetchTokenMarketCap calls made when the day ranges are varied.
SamplingCalls == 1

\* Number of fetchTokenMarketCap calls made when the pools are varied.
DerivationCalls == 2

\* Number of times the clock is advanced.
MaxTicks == 1

\* ------------------------------------------------------------- JS values

NULL == [kind |-> "null"]

\* NaN, kept apart from every number the model computes with.
NaN == 0 - 1000000

isNaN(v) == v = NaN

Truthy(v) == v.kind # "null"

\* Math.round for a quotient num / den of integers, den > 0: floor(x + 0.5).
Round(num, den) == (2 * num + den) \div (2 * den)

\* ------------------------------------------------------------- TTL cache

CACHE_TTL == 5 * 60 * 1000

EmptyMap == <<>>

\* A lookup that still serves an entry whose age is exactly the time to live.
getCachedOffByOne(map, key, t) ==
    IF key \in DOMAIN map /\ t - map[key].timestamp <= CACHE_TTL
    THEN map[key].data
    ELSE NULL

\* Map.get followed by the validity test; null when absent or expired.
getCached(map, key, t) ==
    IF key \in DOMAIN map /\ t - map[key].timestamp < CACHE_TTL
    THEN map[key].data
    ELSE NULL

\* Map.set of { data, timestamp: Date.now() }.
setCache(map, key, data, t) ==
    (key :> [data |-> data, timestamp |-> t]) @@ map

\* ---------------------------------------------------------------- tokens

\* Token records as the view layer hands them to the aggregator.  TokA2
\* shares its id with TokA and differs in every other identity field.
TokA ==
    [id |-> <<"a">>, symbol |-> "A", name |-> "Alpha", color |-> "red",
     platform |-> <<"base">>, contract |-> <<"0xa">>,
     enabled |-> TRUE, isCustom |-> FALSE]

TokB ==
    [id |-> <<"b">>, symbol |-> "B", name |-> "Beta", color |-> "blue",
     platform |-> <<"solana">>, contract |-> <<"0xb">>,
     enabled |-> TRUE, isCustom |-> FALSE]

TokA2 ==
    [id |-> <<"a">>, symbol |-> "A2", name |-> "Alpha two", color |-> "green",
     platform |-> <<"base">>, contract |-> <<"0xc">>,
     enabled |-> TRUE, isCustom |-> TRUE]

Tokens == {TokA, TokB, TokA2}

\* Day ranges the view layer passes: a number of days, or 'max'.
DaysSet == {<<"7">>, <<"max">>}

RECURSIVE SeqsUpTo(_, _)
SeqsUpTo(S, n) ==
    IF n = 0 THEN {<<>>}
    ELSE LET shorter == SeqsUpTo(S, n - 1)
         IN  shorter \cup {Append(q, e) : q \in {r \in shorter : Len(r) = n - 1}, e \in S}

TokenLists == SeqsUpTo(Tokens, MaxCalls)

\* The identity fields of a token or of a record built from one.
Identity(r) ==
    [id |-> r.id, symbol |-> r.symbol, name |-> r.name,
     platform |-> r.platform, contract |-> r.contract]

\* { ...token, <fields> }: the fields of the right operand win.
Spread(token, fields) == fields @@ token

\* ------------------------------------------------- upstream HTTP exchanges

\* What one fetch + response.json() can come to: the transport or the JSON
\* parser throws, the status is not 2xx, or a JSON body arrives.
Throw == [status |-> "throw"]

NotOk == [status |-> "notok"]

Ok(json) == [status |-> "ok", json |-> json]

Array(items) == [kind |-> "array", items |-> items]

\* DexPaprika /tokens/{address}: absent fields are 0 (undefined is falsy and
\* `undefined || 0` is 0 wherever the code reads them).
InfoFull == [kind |-> "object", price_usd |-> 2, market_cap |-> 40, fdv_usd |-> 60]

InfoBare == [kind |-> "object", price_usd |-> 0, market_cap |-> 0, fdv_usd |-> 0]

TokenInfoResponses == {Throw, NotOk, Ok(InfoFull), Ok(InfoBare)}

\* DexPaprika pools: id, volume_usd, price_usd and the tokens of the pool.
Pool1 ==
    [id |-> <<"p1">>, volume_usd |-> 5, price_usd |-> 4,
     tokens |-> <<[id |-> <<"0xA">>, fdv |-> 80]>>]

Pool2 ==
    [id |-> <<"p2">>, volume_usd |-> 9, price_usd |-> 0,
     tokens |-> <<>>]

PoolNoId ==
    [id |-> <<>>, volume_usd |-> 1, price_usd |-> 0, tokens |-> <<>>]

PoolsObject(items) == [kind |-> "object", pools |-> Array(items)]

PoolsResponses ==
    {Throw, NotOk, Ok(PoolsObject(<<>>)), Ok(PoolsObject(<<Pool1, Pool2>>)),
     Ok(Array(<<Pool1>>)), Ok(PoolsObject(<<PoolNoId>>))}

\* DexPaprika candles: times already in epoch milliseconds, 0 when the field
\* is absent; close is NaN when it does not parse.
Candle(tc, to, close) == [time_close |-> tc, time_open |-> to, close |-> close]

OhlcvTwo == Array(<<Candle(20, 15, 2), Candle(0, 10, 1)>>)

OhlcvUnusable == Array(<<Candle(10, 5, 0), Candle(0, 0, 2), Candle(30, 25, NaN)>>)

OhlcvResponses == {Throw, NotOk, Ok(Array(<<>>)), Ok(OhlcvTwo), Ok(OhlcvUnusable)}

\* DexScreener /dex/tokens/{address}: the pairs of the token.
Pair(chain, liq, cap, fdv, price) ==
    [chainId |-> chain, liquidity |-> liq, marketCap |-> cap, fdv |-> fdv,
     priceUsd |-> price]

PairsObject(items) == [kind |-> "object", pairs |-> items]

DexScreenerResponses ==
    {Throw, NotOk, Ok(PairsObject(<<>>)),
     Ok(PairsObject(<<Pair(<<"base">>, 5, 50, 70, 2)>>)),
     Ok(PairsObject(<<Pair(<<"base">>, 5, 0, 0, 2)>>)),
     Ok(PairsObject(<<Pair(<<"base">>, 5, 0, 0, 0)>>))}

\* ------------------------------------------------------ JS helper functions

\* a || b on numbers: 0 and NaN are falsy.
OrNum(a, b) == IF a # 0 /\ ~isNaN(a) THEN a ELSE b

\* tokenInfo?.field: undefined (0) when tokenInfo is null.
InfoField(tokenInfo, f) == IF Truthy(tokenInfo) THEN tokenInfo[f] ELSE 0

LowerAtom(a) == IF a = "0xA" THEN "0xa" ELSE a

toLowerCase(s) == [i \in 1..Len(s) |-> LowerAtom(s[i])]

\* new Date(v).getTime(): NaN for undefined.
DateMs(v) == IF v = 0 \/ isNaN(v) THEN NaN ELSE v

\* Number(days) as Date.setDate coerces it; NaN for 'max'.
DaysNumber(days) ==
    CASE days = <<"1">> -> 1
      [] days = <<"2">> -> 2
      [] days = <<"7">> -> 7
      [] days = <<"8">> -> 8
      [] days = <<"30">> -> 30
      [] days = <<"31">> -> 31
      [] days = <<"366">> -> 366
      [] days = <<"367">> -> 367
      [] OTHER -> NaN

\* Math.min(a, 366); NaN when a is.
MinLimit(a) == IF isNaN(a) THEN NaN ELSE IF a < 366 THEN a ELSE 366

\* The interval and the limit chosen with the comparisons as strict ones.
SamplingStrict(n) ==
    IF isNaN(n) THEN [interval |-> "24h", limit |-> NaN]
    ELSE IF n < 1 THEN [interval |-> "5m", limit |-> 288]
    ELSE IF n < 7 THEN [interval |-> "1h", limit |-> MinLimit(n * 24)]
    ELSE IF n < 30 THEN [interval |-> "4h", limit |-> MinLimit(n * 6)]
    ELSE [interval |-> "24h", limit |-> MinLimit(n)]

\* getPoolOHLCV, lines 106-121: the interval and the limit for a number of
\* days; every comparison with NaN is false.
Sampling(n) ==
    IF isNaN(n) THEN [interval |-> "24h", limit |-> NaN]
    ELSE IF n <= 1 THEN [interval |-> "5m", limit |-> 288]
    ELSE IF n <= 7 THEN [interval |-> "1h", limit |-> MinLimit(n * 24)]
    ELSE IF n <= 30 THEN [interval |-> "4h", limit |-> MinLimit(n * 6)]
    ELSE [interval |-> "24h", limit |-> MinLimit(n)]

\* The candle request of getPoolOHLCV, lines 100-128: the pool, the start
\* as a number of days before today, the interval and the limit.
OhlcvRequest(network, poolAddress, days) ==
    [kind |-> "request", network |-> network, pool |-> poolAddress,
     daysBack |-> DaysNumber(days),
     interval |-> Sampling(DaysNumber(days)).interval,
     limit |-> Sampling(DaysNumber(days)).limit]

\* Array.prototype.sort with the comparator (a, b) => a.x - b.x (stable).
RECURSIVE InsertByX(_, _)
InsertByX(sorted, p) ==
    IF sorted = <<>> THEN <<p>>
    ELSE IF p.x < sorted[Len(sorted)].x
         THEN Append(InsertByX(SubSeq(sorted, 1, Len(sorted) - 1), p), sorted[Len(sorted)])
         ELSE Append(sorted, p)

RECURSIVE SortByX(_)
SortByX(points) ==
    IF points = <<>> THEN <<>>
    ELSE InsertByX(SortByX(SubSeq(points, 1, Len(points) - 1)), points[Len(points)])

\* ------------------------------------------------------ DexPaprika adapter

NETWORK_MAP == [p \in {<<"ethereum">>, <<"base">>, <<"solana">>} |-> p]

Network(platform) ==
    IF platform \in DOMAIN NETWORK_MAP THEN NETWORK_MAP[platform] ELSE platform

PoolsKey(platform, contract) ==
    <<"dexpaprika_pools_">> \o Network(platform) \o <<"_">> \o contract

TokenInfoKey(platform, contract) ==
    <<"dexpaprika_token_">> \o Network(platform) \o <<"_">> \o contract

OhlcvKey(network, poolAddress, days) ==
    <<"dexpaprika_ohlcv_">> \o network \o <<"_">> \o poolAddress \o <<"_">> \o days

\* The tail shared by getTokenPools, getTokenInfo and getPoolOHLCV once the
\* exchange is over: [value returned, cache afterwards].
StoreResponse(map, key, resp, t) ==
    IF resp.status = "ok"
    THEN [value |-> resp.json, cache |-> setCache(map, key, resp.json, t)]
    ELSE [value |-> NULL, cache |-> map]

\* poolsResponse?.pools || poolsResponse
PoolsOf(poolsResponse) ==
    IF Truthy(poolsResponse) /\ poolsResponse.kind = "object" /\ Truthy(poolsResponse.pools)
    THEN poolsResponse.pools
    ELSE poolsResponse

\* A reduce that replaces the pool held on an equal volume too.
RECURSIVE ReduceBestLatest(_, _, _)
ReduceBestLatest(pools, i, best) ==
    IF i > Len(pools) THEN best
    ELSE ReduceBestLatest(pools, i + 1,
                          IF OrNum(pools[i].volume_usd, 0) >= OrNum(best.volume_usd, 0)
                          THEN pools[i] ELSE best)

\* pools.reduce(..., pools[0]): the earliest pool of strictly greatest volume.
RECURSIVE ReduceBest(_, _, _)
ReduceBest(pools, i, best) ==
    IF i > Len(pools) THEN best
    ELSE ReduceBest(pools, i + 1,
                    IF OrNum(pools[i].volume_usd, 0) > OrNum(best.volume_usd, 0)
                    THEN pools[i] ELSE best)

BestPool(pools) == ReduceBest(pools, 1, pools[1])

\* bestPool.tokens?.find(t => t.id?.toLowerCase() === contract.toLowerCase())?.fdv
PoolTokenFdv(pool, contract) ==
    LET hits == {i \in 1..Len(pool.tokens) :
                    toLowerCase(pool.tokens[i].id) = toLowerCase(contract)}
    IN  IF hits = {} THEN 0
        ELSE pool.tokens[CHOOSE i \in hits : \A j \in hits : i <= j].fdv

CurrentPrice(bestPool, tokenInfo) ==
    OrNum(bestPool.price_usd, OrNum(InfoField(tokenInfo, "price_usd"), 0))

Fdv(bestPool, tokenInfo, contract) ==
    OrNum(PoolTokenFdv(bestPool, contract),
          OrNum(InfoField(tokenInfo, "fdv_usd"),
                OrNum(InfoField(tokenInfo, "market_cap"), 0)))

\* price * 1e9, the multiplier used when the supply is unknown.
HEURISTIC_SUPPLY == 1000000000

\* The value cut off below the decimal point, not rounded.
MarketCapYTruncated(price, currentPrice, fdv) ==
    IF isNaN(price) THEN NaN
    ELSE IF currentPrice > 0 /\ fdv > 0
         THEN (price * fdv) \div currentPrice
         ELSE price * HEURISTIC_SUPPLY

\* Math.round(supply > 0 ? price * supply : price * 1e9) with
\* supply = currentPrice > 0 ? fdv / currentPrice : 0, in exact arithmetic.
MarketCapY(price, currentPrice, fdv) ==
    IF isNaN(price) THEN NaN
    ELSE IF currentPrice > 0 /\ fdv > 0
         THEN Round(price * fdv, currentPrice)
         ELSE price * HEURISTIC_SUPPLY

CandlePoint(candle, currentPrice, fdv) ==
    [x |-> DateMs(OrNum(candle.time_close, candle.time_open)),
     y |-> MarketCapY(candle.close, currentPrice, fdv)]

UsablePoint(point) == ~isNaN(point.x) /\ ~isNaN(point.y) /\ point.y > 0

DerivePoints(candles, currentPrice, fdv) ==
    SortByX(SelectSeq([i \in 1..Len(candles) |-> CandlePoint(candles[i], currentPrice, fdv)],
                      UsablePoint))

IsNonEmptyArray(v) == Truthy(v) /\ v.kind = "array" /\ Len(v.items) > 0

\* fetchDexPaprikaMarketCap from the candle response on.
PaprikaSnapshot(token, tokenInfo, t) ==
    IF OrNum(InfoField(tokenInfo, "price_usd"), 0) # 0
       /\ OrNum(InfoField(tokenInfo, "market_cap"), 0) # 0
    THEN Spread(token,
                [kind |-> "series",
                 data |-> <<[x |-> t, y |-> tokenInfo.market_cap]>>,
                 currentMarketCap |-> tokenInfo.market_cap,
                 currentPrice |-> tokenInfo.price_usd,
                 source |-> "dexpaprika", lastUpdated |-> t])
    ELSE NULL

\* The series built without the test `data.length === 0`.
PaprikaSeriesUnfiltered(token, tokenInfo, bestPool, ohlcvData, t) ==
    LET currentPrice == CurrentPrice(bestPool, tokenInfo)
        fdv == Fdv(bestPool, tokenInfo, token.contract)
    IN  Spread(token,
               [kind |-> "series",
                data |-> DerivePoints(ohlcvData.items, currentPrice, fdv),
                currentMarketCap |-> fdv, currentPrice |-> currentPrice,
                poolAddress |-> bestPool.id,
                liquidity |-> OrNum(bestPool.volume_usd, 0),
                source |-> "dexpaprika", lastUpdated |-> t])

\* Lines 199-236: the candles have arrived.
PaprikaSeries(token, tokenInfo, bestPool, ohlcvData, t) ==
    LET currentPrice == CurrentPrice(bestPool, tokenInfo)
        fdv == Fdv(bestPool, tokenInfo, token.contract)
        data == DerivePoints(ohlcvData.items, currentPrice, fdv)
    IN  IF data = <<>> THEN NULL
        ELSE Spread(token,
                    [kind |-> "series", data |-> data,
                     currentMarketCap |-> fdv, currentPrice |-> currentPrice,
                     poolAddress |-> bestPool.id,
                     liquidity |-> OrNum(bestPool.volume_usd, 0),
                     source |-> "dexpaprika", lastUpdated |-> t])

PaprikaResult(token, tokenInfo, bestPool, ohlcvData, t) ==
    IF ~IsNonEmptyArray(ohlcvData)
    THEN PaprikaSnapshot(token, tokenInfo, t)
    ELSE PaprikaSeries(token, tokenInfo, bestPool, ohlcvData, t)

\* ----------------------------------------------------- DexScreener adapter

CHAIN_MAP == [p \in {<<"ethereum">>, <<"base">>, <<"solana">>} |-> p]

Chain(platform) ==
    IF platform \in DOMAIN CHAIN_MAP THEN CHAIN_MAP[platform] ELSE platform

\* chainPairs.sort((a, b) => (b.liquidity?.usd || 0) - (a.liquidity?.usd || 0)),
\* a stable sort by descending liquidity.
RECURSIVE InsertByLiquidity(_, _)
InsertByLiquidity(sorted, p) ==
    IF sorted = <<>> THEN <<p>>
    ELSE IF OrNum(p.liquidity, 0) > OrNum(sorted[Len(sorted)].liquidity, 0)
         THEN Append(InsertByLiquidity(SubSeq(sorted, 1, Len(sorted) - 1), p),
                     sorted[Len(sorted)])
         ELSE Append(sorted, p)

RECURSIVE SortByLiquidity(_)
SortByLiquidity(pairs) ==
    IF pairs = <<>> THEN <<>>
    ELSE InsertByLiquidity(SortByLiquidity(SubSeq(pairs, 1, Len(pairs) - 1)),
                           pairs[Len(pairs)])

\* The first pair of the chain, with chainPairs left unsorted.
getDexScreenerTokenUnsorted(platform, resp) ==
    IF resp.status # "ok" THEN NULL
    ELSE LET data == resp.json
             chainPairs == SelectSeq(data.pairs, LAMBDA p : p.chainId = Chain(platform))
         IN  IF Len(data.pairs) = 0 THEN NULL
             ELSE IF Len(chainPairs) = 0 THEN Spread(data.pairs[1], [kind |-> "pair"])
             ELSE Spread(chainPairs[1], [kind |-> "pair"])

\* getDexScreenerToken once the exchange is over: the pair, or null.
getDexScreenerToken(platform, resp) ==
    IF resp.status # "ok" THEN NULL
    ELSE LET data == resp.json
             chainPairs == SelectSeq(data.pairs, LAMBDA p : p.chainId = Chain(platform))
         IN  IF Len(data.pairs) = 0 THEN NULL
             ELSE IF Len(chainPairs) = 0 THEN Spread(data.pairs[1], [kind |-> "pair"])
             ELSE Spread(SortByLiquidity(chainPairs)[1], [kind |-> "pair"])

\* fetchDexScreenerMarketCap once getDexScreenerToken has returned.
fetchDexScreenerMarketCap(token, resp, t) ==
    LET pair == getDexScreenerToken(token.platform, resp)
    IN  IF ~Truthy(pair) THEN NULL
        ELSE LET marketCap == OrNum(pair.marketCap, OrNum(pair.fdv, 0))
                 priceUsd == OrNum(pair.priceUsd, 0)
             IN  IF marketCap = 0 /\ priceUsd = 0 THEN NULL
                 ELSE Spread(token,
                             [kind |-> "series",
                              currentMarketCap |-> marketCap,
                              currentPrice |-> priceUsd,
                              liquidity |-> OrNum(pair.liquidity, 0),
                              data |-> <<[x |-> t, y |-> marketCap]>>,
                              source |-> "dexscreener", lastUpdated |-> t])

\* --------------------------------------------------- GeckoTerminal adapter

\* fetchGeckoTerminalMarketCap is imported from ./geckoterminal; what it can
\* hand to the aggregator is taken from its contract: it throws, returns
\* null, or returns the token merged with a point list, possibly empty.
GeckoData == <<[x |-> 10, y |-> 100], [x |-> 20, y |-> 200]>>

GeckoSeries(token, data, t) ==
    Spread(token,
           [kind |-> "series", data |-> data, currentMarketCap |-> 200,
            currentPrice |-> 2, source |-> "geckoterminal", lastUpdated |-> t])

Thrown == [status |-> "throw"]

Returned(v) == [status |-> "return", value |-> v]

GeckoOutcomes(token, t) ==
    {Thrown, Returned(NULL), Returned(GeckoSeries(token, <<>>, t)),
     Returned(GeckoSeries(token, GeckoData, t))}

\* ---------------------------------------------------------------- storage

\* The fields saveTokens writes for a token.
PrefFields == {"id", "symbol", "name", "color", "enabled", "isCustom"}

\* A token as saved with every field it has.
SavedRecordWhole(t) == t

\* { id: t.id, ..., isCustom: t.isCustom || false } as JSON.stringify writes
\* it: a property whose value is undefined is left out.
SavedRecord(t) ==
    [f \in (PrefFields \cap DOMAIN t) \cup {"isCustom"} |->
        IF f = "isCustom"
        THEN (IF "isCustom" \in DOMAIN t THEN t.isCustom ELSE FALSE)
        ELSE t[f]]

\* tokens.map(t => ({...})) and JSON.stringify, read back by JSON.parse.
ToSave(tokens) == [i \in 1..Len(tokens) |-> SavedRecord(tokens[i])]

\* localStorage.getItem(STORAGE_KEY) is null: nothing was saved.
NoItem == [kind |-> "null"]

Item(list) == [kind |-> "json", list |-> list]

\* getSavedTokens(): the parsed item; null when there is none or when
\* reading or parsing it throws.
getSavedTokens(item, fails) == IF fails THEN NoItem ELSE item

\* What Map.get returns: undefined, or the preference found.
Undefined == [kind |-> "undefined"]

Found(p) == [kind |-> "pref", pref |-> p]

\* new Map(savedPrefs.map(p => [p.id, p])).get(id): a later pair of the
\* same id replaces the earlier one.
RECURSIVE LastWithId(_, _, _)
LastWithId(prefs, id, n) ==
    IF n = 0 THEN Undefined
    ELSE IF prefs[n].id = id THEN Found(prefs[n])
    ELSE LastWithId(prefs, id, n - 1)

\* A lookup in which the first preference of an id wins.
PrefOfFirst(prefs, id) ==
    LET withId == {n \in 1..Len(prefs) : prefs[n].id = id}
    IN  IF withId = {} THEN Undefined
        ELSE Found(prefs[CHOOSE n \in withId : \A m \in withId : n <= m])

\* prefsMap.get(token.id)
PrefOf(prefs, id) == LastWithId(prefs, id, Len(prefs))

\* mergeTokenPreferences(tokens, savedPrefs)
mergeTokenPreferences(tokens, savedPrefs) ==
    IF savedPrefs = NoItem THEN tokens
    ELSE [i \in 1..Len(tokens) |->
             LET pref == PrefOf(savedPrefs.list, tokens[i].id)
             IN  IF pref # Undefined
                 THEN Spread(tokens[i], [enabled |-> pref.pref.enabled])
                 ELSE tokens[i]]

\* ------------------------------------------------------------------ chart

DAY == 24 * 60 * 60 * 1000

\* Date.now() when the chart filters its points.
ChartNow == 8 * DAY

\* How often the effect runs.
MaxEffects == 2

\* filterDataByRange(data, days)
filterDataByRange(data, days) ==
    IF Len(data) = 0 THEN <<>>
    ELSE IF days = <<"max">> THEN data
    ELSE SelectSeq(data, LAMBDA point : point.x >= ChartNow - DaysNumber(days) * DAY)

\* .sort((a, b) => a.time - b.time), a stable sort.
RECURSIVE InsertByTime(_, _)
InsertByTime(sorted, p) ==
    IF sorted = <<>> THEN <<p>>
    ELSE IF p.time < sorted[Len(sorted)].time
         THEN Append(InsertByTime(SubSeq(sorted, 1, Len(sorted) - 1), p), sorted[Len(sorted)])
         ELSE Append(sorted, p)

RECURSIVE SortByTime(_)
SortByTime(points) ==
    IF points = <<>> THEN <<>>
    ELSE InsertByTime(SortByTime(SubSeq(points, 1, Len(points) - 1)), points[Len(points)])

\* convertData(data): seconds for milliseconds, in ascending order of time.
convertData(data) ==
    SortByTime([i \in 1..Len(data) |->
                   [time |-> data[i].x \div 1000, value |-> data[i].y]])

\* tokens.filter(t => t.enabled && t.data && t.data.length > 0)
enabledTokens(tokens) ==
    SelectSeq(tokens, LAMBDA t : t.enabled /\ "data" \in DOMAIN t /\ Len(t.data) > 0)

\* A chart without series: series are the line series of the chart by
\* identity, map is seriesMapRef.current (symbol to series), next the
\* identity of the series created next; enabled and range are those of the
\* last run of the effect, runs counts the runs.
NoChart ==
    [series |-> <<>>, map |-> <<>>, next |-> 1, enabled |-> <<>>, range |-> <<"max">>,
     runs |-> 0]

\* The forEach that removes the series whose symbol no enabled token has.
RemoveSeries(ch, currentSymbols) ==
    LET kept == DOMAIN ch.map \cap currentSymbols
    IN  [ch EXCEPT !.map = [sym \in kept |-> ch.map[sym]],
                   !.series = [sid \in {ch.map[sym] : sym \in kept} |-> ch.series[sid]]]

\* The body of enabledTokens.forEach for one token.
UpdateSeries(ch, token, selectedRange) ==
    LET chartData == convertData(filterDataByRange(token.data, selectedRange))
    IN  IF token.symbol \in DOMAIN ch.map
        THEN [ch EXCEPT !.series[ch.map[token.symbol]].data = chartData]
        ELSE [ch EXCEPT !.series = (ch.next :> [color |-> token.color, data |-> chartData]) @@ @,
                        !.map = (token.symbol :> ch.next) @@ @,
                        !.next = @ + 1]

RECURSIVE UpdateAll(_, _, _, _)
UpdateAll(ch, enabled, i, selectedRange) ==
    IF i > Len(enabled) THEN ch
    ELSE UpdateAll(UpdateSeries(ch, enabled[i], selectedRange), enabled, i + 1, selectedRange)

\* The effect of lines 164-206.
RunEffect(ch, tokens, selectedRange) ==
    LET enabled == enabledTokens(tokens)
        currentSymbols == {enabled[i].symbol : i \in 1..Len(enabled)}
        updated == UpdateAll(RemoveSeries(ch, currentSymbols), enabled, 1, selectedRange)
    IN  [updated EXCEPT !.enabled = enabled, !.range = selectedRange, !.runs = @ + 1]

\* --------------------------------------------------------------- AddToken

\* How often the form is submitted.
MaxSubmits == 2

\* A contract address is its first eight characters followed by the rest.
\* contractAddress.trim() of an address without blanks.
Trim(address) == address

\* contractAddress.slice(0, 8)
Slice8(address) == IF address = <<>> THEN <<>> ELSE <<address[1]>>

\* `${platform}-${contractAddress.slice(0, 8)}`
FallbackId(platform, address) == platform \o <<"-">> \o Slice8(address)

\* String.toUpperCase on the texts of the form.
toUpperCase(text) == IF text = "sym" THEN "SYM" ELSE text

\* generateRandomColor() returns one of its colours.
Colors == {"#FF6384", "#36A2EB"}

\* getTokenByContract hands over getTokenInfo of ./geckoterminal: it throws,
\* returns null, or returns an object that may have an id, a symbol and a
\* name.
InfoWithId == [kind |-> "object", id |-> <<"gid">>, symbol |-> "gsym", name |-> "Gname"]

InfoWithoutId == [kind |-> "object", id |-> <<>>, symbol |-> "", name |-> ""]

TokenByContractOutcomes ==
    {Thrown, Returned(NULL), Returned(InfoWithId), Returned(InfoWithoutId)}

\* a || b || c on texts.
OrText(a, b) == IF a # "" THEN a ELSE b

\* Lines 371-380.
TokenDataFound(f, tokenInfo, color) ==
    [id |-> IF tokenInfo.id # <<>> THEN tokenInfo.id
            ELSE FallbackId(f.platform, f.contractAddress),
     symbol |-> OrText(toUpperCase(tokenInfo.symbol),
                       OrText(toUpperCase(f.customSymbol), "UNKNOWN")),
     name |-> OrText(tokenInfo.name, OrText(f.customName, "Unknown Token")),
     color |-> color, platform |-> f.platform, contract |-> Trim(f.contractAddress),
     enabled |-> TRUE, isCustom |-> TRUE]

\* Lines 389-399.
TokenDataManual(f, color) ==
    [id |-> FallbackId(f.platform, f.contractAddress),
     symbol |-> toUpperCase(f.customSymbol), name |-> f.customName,
     color |-> color, platform |-> f.platform, contract |-> Trim(f.contractAddress),
     enabled |-> TRUE, isCustom |-> TRUE, data |-> <<>>]

\* The component before the first submit; existing is the prop
\* existingTokenIds, added the tokens the submit has passed to onAdd, seen
\* the tokens the submits have built.
NoForm ==
    [pc |-> "idle", platform |-> <<"ethereum">>, contractAddress |-> <<>>,
     customName |-> "", customSymbol |-> "", isLoading |-> FALSE, error |-> "",
     tokenData |-> NULL, existing |-> <<>>, added |-> <<>>, submits |-> 0, seen |-> {}]

\* resetForm()
ResetForm(f) ==
    [f EXCEPT !.contractAddress = <<>>, !.customName = "", !.customSymbol = "",
              !.platform = <<"ethereum">>, !.error = ""]

\* The parent's onAdd puts the token into its list, so that its id is among
\* existingTokenIds from then on.
OnAdd(existing, tokenData) == Append(existing, tokenData.id)

\* existingTokenIds.includes(id)
Includes(existing, id) == \E i \in 1..Len(existing) : existing[i] = id

\* Lines 400-404, then finally.
NotFound(f) ==
    [f EXCEPT !.error = "Token not found on CoinGecko. Please enter name and symbol manually.",
              !.isLoading = FALSE, !.pc = "idle"]

\* The catch block, then finally.
SubmitFailed(f) ==
    [f EXCEPT !.error = "Failed to fetch token data. Please try again.",
              !.isLoading = FALSE, !.pc = "idle"]

\* Lines 406-420: the duplicate test, onAdd, resetForm, finally.
FinishSubmit(f, tokenData) ==
    LET built == [f EXCEPT !.tokenData = tokenData,
                           !.seen = @ \cup {[platform |-> tokenData.platform,
                                             contract |-> tokenData.contract,
                                             id |-> tokenData.id]}]
    IN  IF Includes(f.existing, tokenData.id)
        THEN [built EXCEPT !.error = "This token is already in your list",
                           !.isLoading = FALSE, !.pc = "idle"]
        ELSE [ResetForm(built) EXCEPT !.added = Append(@, tokenData),
                                      !.existing = OnAdd(@, tokenData),
                                      !.isLoading = FALSE, !.pc = "idle"]

\* ------------------------------------------------------------------ state

VARIABLES
    now,          \* Date.now()
    ticks,        \* how often the clock has been advanced
    made,         \* fetchTokenMarketCap calls made so far
    resultCache,  \* the aggregator's Map: key -> { data, timestamp }
    cache,        \* the DexPaprika module's Map
    calls,        \* the fetchTokenMarketCap invocation of each caller
    batch,        \* the fetchAllTokensMarketCap invocation
    prev,         \* what the last completed fetchTokenMarketCap call did
    store,        \* localStorage and the last call of the storage module
    chart,        \* the Chart component: its series, seriesMapRef, last effect
    form          \* the AddToken component: its state and its submit handler

vars == <<now, ticks, made, resultCache, cache, calls, batch, prev, store, chart, form>>

\* The state of the market-cap modules, and that of the view layer.
core == <<now, ticks, made, resultCache, cache, calls, batch, prev>>

view == <<store, chart, form>>

\* The callers of fetchTokenMarketCap: the batch loop and AddToken's submit
\* handler.
Slots == {"batch", "single"}

IdleCall == [pc |-> "idle"]

IdleBatch == [pc |-> "idle"]

\* Nothing saved, no call of the storage module made.
NoStore == [item |-> NoItem, op |-> [name |-> "none"]]

\* A fetchTokenMarketCap activation: its arguments, its position (the await
\* it is suspended at) and the locals of the adapter it is inside of.  The
\* other fields record what it did: the adapters it invoked (log), whether
\* each answered with at least one point (answers), what the adapters
\* returned (gecko, paprika, screener), the upstream exchanges it
\* went through (net), whether the result cache served it (hit) or held an
\* expired entry (stale); seq numbers the calls.  req is the candle request
\* that is in flight, pair what getDexScreenerToken returned.
NewCall(token, days, seq) ==
    [pc |-> "start", token |-> token, days |-> days, seq |-> seq,
     tokenInfo |-> NULL, bestPool |-> NULL, req |-> NULL,
     log |-> <<>>, answers |-> <<>>, gecko |-> NULL, paprika |-> NULL, screener |-> NULL,
     pair |-> NULL, net |-> <<>>,
     ret |-> NULL, hit |-> FALSE, stale |-> FALSE]

TokenKey(token, days) == <<"token_">> \o token.id \o <<"_">> \o days

NoPrev == [key |-> <<>>]

\* What is kept of a completed call: its key, when it returned, whether it
\* invoked an adapter, whether it returned a series, and whether the caches
\* were cleared since; the platform and contract of its token and the
\* endpoints that answered it with a JSON body.
Summary(c, t) ==
    [key |-> TokenKey(c.token, c.days), end |-> t, upstream |-> c.log # <<>>,
     ok |-> Truthy(c.ret), cleared |-> FALSE,
     platform |-> c.token.platform, contract |-> c.token.contract,
     okEps |-> {c.net[i].ep : i \in {j \in 1..Len(c.net) : c.net[j].resp.status = "ok"}}]

\* ------------------------------------------------------------- aggregator
\* A step works on st = [c, cache, rc, prev]: the running call and the maps
\* it reads and writes; each operator runs the code up to the next await.

\* result && result.data && result.data.length > 0
HasData(result) == Truthy(result) /\ Len(result.data) > 0

\* return value;
ReturnValue(st, value, t) ==
    LET c == [st.c EXCEPT !.pc = "done", !.ret = value,
                          !.tokenInfo = NULL, !.bestPool = NULL, !.req = NULL]
    IN  [st EXCEPT !.c = c, !.prev = Summary(c, t)]

\* A result returned without being stored.
AcceptNoStore(st, result, t) == ReturnValue(st, result, t)

\* setCache(cacheKey, result); return result;
Accept(st, result, t) ==
    ReturnValue([st EXCEPT !.rc = setCache(st.rc, TokenKey(st.c.token, st.c.days), result, t)],
                result, t)

\* The last adapter has answered and an error record is returned when it
\* has no data, in place of null.
AfterDexScreenerPlaceholder(st, result, t) ==
    LET st1 == [st EXCEPT !.c.answers = Append(@, HasData(result)), !.c.screener = result]
    IN  IF HasData(result) THEN Accept(st1, result, t)
        ELSE ReturnValue(st1, Spread(st.c.token, [kind |-> "series", data |-> <<>>,
                                                  error |-> TRUE, source |-> "none"]), t)

\* The last adapter has answered and what it gave is stored whatever it is.
AfterDexScreenerStoresFailure(st, result, t) ==
    Accept([st EXCEPT !.c.answers = Append(@, HasData(result)), !.c.screener = result],
           IF HasData(result) THEN result ELSE NULL, t)

\* The last adapter has answered: lines 330-340.
AfterDexScreener(st, result, t) ==
    LET st1 == [st EXCEPT !.c.answers = Append(@, HasData(result)), !.c.screener = result]
    IN  IF HasData(result) THEN Accept(st1, result, t) ELSE ReturnValue(st1, NULL, t)

\* fetchDexScreenerMarketCap(token) up to its fetch.
StartDexScreener(st, t) ==
    [st EXCEPT !.c.pc = "ds", !.c.log = Append(@, "dexscreener"),
               !.c.tokenInfo = NULL, !.c.bestPool = NULL, !.c.req = NULL]

\* The second adapter has answered and the third is tried whatever it said.
AfterPaprikaNoStop(st, result, t) ==
    StartDexScreener([st EXCEPT !.c.answers = Append(@, HasData(result)),
                                !.c.paprika = result], t)

\* fetchDexPaprikaMarketCap has answered: lines 316-328.
AfterPaprika(st, result, t) ==
    LET st1 == [st EXCEPT !.c.answers = Append(@, HasData(result)), !.c.paprika = result]
    IN  IF HasData(result) THEN Accept(st1, result, t) ELSE StartDexScreener(st1, t)

\* Lines 182-236 of the adapter, then back in the aggregator.
OhlcvStage(st, ohlcvData, t) ==
    AfterPaprika(st, PaprikaResult(st.c.token, st.c.tokenInfo, st.c.bestPool, ohlcvData, t), t)

\* getPoolOHLCV(network, poolAddress, days) up to its fetch.  For a day
\* range that is not a number startDate is an Invalid Date and toISOString
\* throws inside the try block: null is returned and nothing is fetched.
EnterOhlcv(st, t) ==
    LET key == OhlcvKey(Network(st.c.token.platform), st.c.bestPool.id, st.c.days)
        cached == getCached(st.cache, key, t)
    IN  IF Truthy(cached) THEN OhlcvStage(st, cached, t)
        ELSE IF isNaN(DaysNumber(st.c.days)) THEN OhlcvStage(st, NULL, t)
        ELSE [st EXCEPT !.c.pc = "pOhlcv",
                        !.c.req = OhlcvRequest(Network(st.c.token.platform),
                                               st.c.bestPool.id, st.c.days)]

\* Lines 158-180: pool selection.
PoolsStage(st, poolsResponse, t) ==
    LET pools == PoolsOf(poolsResponse)
    IN  IF ~IsNonEmptyArray(pools) THEN AfterPaprika(st, NULL, t)
        ELSE LET bestPool == BestPool(pools.items)
             IN  IF bestPool.id = <<>> THEN AfterPaprika(st, NULL, t)
                 ELSE EnterOhlcv([st EXCEPT !.c.bestPool = bestPool], t)

\* getTokenPools(platform, contract) up to its fetch.
EnterPools(st, t) ==
    LET cached == getCached(st.cache, PoolsKey(st.c.token.platform, st.c.token.contract), t)
    IN  IF Truthy(cached) THEN PoolsStage(st, cached, t)
        ELSE [st EXCEPT !.c.pc = "pPools"]

InfoStage(st, tokenInfo, t) == EnterPools([st EXCEPT !.c.tokenInfo = tokenInfo], t)

\* getTokenInfo(platform, contract) up to its fetch.
EnterInfo(st, t) ==
    LET cached == getCached(st.cache, TokenInfoKey(st.c.token.platform, st.c.token.contract), t)
    IN  IF Truthy(cached) THEN InfoStage(st, cached, t)
        ELSE [st EXCEPT !.c.pc = "pInfo"]

\* fetchDexPaprikaMarketCap(token, days) up to its first fetch.
StartPaprika(st, t) == EnterInfo([st EXCEPT !.c.log = Append(@, "dexpaprika")], t)

\* The first adapter has answered and the second is tried whatever it said.
AfterGeckoFallThrough(st, outcome, t) ==
    StartPaprika([st EXCEPT !.c.answers =
                                Append(@, outcome.status = "return" /\ HasData(outcome.value)),
                            !.c.gecko = IF outcome.status = "return" THEN outcome.value ELSE NULL],
                 t)

\* fetchGeckoTerminalMarketCap has answered: lines 302-314.
AfterGecko(st, outcome, t) ==
    LET st1 == [st EXCEPT !.c.answers =
                              Append(@, outcome.status = "return" /\ HasData(outcome.value)),
                          !.c.gecko = IF outcome.status = "return" THEN outcome.value ELSE NULL]
    IN  IF outcome.status = "return" /\ HasData(outcome.value)
        THEN Accept(st1, outcome.value, t)
        ELSE StartPaprika(st1, t)

\* A lookup that deletes the entry it finds expired.
BeginCallEvicting(st, t) ==
    LET key == TokenKey(st.c.token, st.c.days)
        cached == getCached(st.rc, key, t)
    IN  IF Truthy(cached)
        THEN ReturnValue([st EXCEPT !.c.hit = TRUE], cached, t)
        ELSE [st EXCEPT !.c.pc = "gecko", !.c.log = <<"geckoterminal">>,
                        !.c.stale = (key \in DOMAIN st.rc),
                        !.rc = [k \in DOMAIN st.rc \ {key} |-> st.rc[k]]]

\* A call that goes to the first adapter without consulting the result cache.
BeginCallNoLookup(st, t) ==
    [st EXCEPT !.c.pc = "gecko", !.c.log = <<"geckoterminal">>,
               !.c.stale = (TokenKey(st.c.token, st.c.days) \in DOMAIN st.rc)]

\* fetchTokenMarketCap(token, days) up to its first await: lines 292-300.
BeginCall(st, t) ==
    LET key == TokenKey(st.c.token, st.c.days)
        cached == getCached(st.rc, key, t)
    IN  IF Truthy(cached)
        THEN ReturnValue([st EXCEPT !.c.hit = TRUE], cached, t)
        ELSE [st EXCEPT !.c.pc = "gecko", !.c.log = <<"geckoterminal">>,
                        !.c.stale = (key \in DOMAIN st.rc)]

\* ------------------------------------------------- fetchAllTokensMarketCap

\* An error record that does not spread the token.
PlaceholderAnonymous(token) ==
    [kind |-> "series", data |-> <<>>, error |-> TRUE, source |-> "none"]

\* The record pushed for a token no provider had data for: lines 365-370.
Placeholder(token) ==
    Spread(token, [kind |-> "series", data |-> <<>>, error |-> TRUE, source |-> "none"])

\* A progress record whose symbol is in a field named tokenSymbol.
ProgressRecordTokenSymbol(tokens, i) ==
    [current |-> i + 1, total |-> Len(tokens), tokenSymbol |-> tokens[i + 1].symbol]

\* The argument of onProgress for the token at index i (from 0): lines 353-357.
ProgressRecord(tokens, i) ==
    [current |-> i + 1, total |-> Len(tokens), token |-> tokens[i + 1].symbol]

\* The loop from its test `i < tokens.length` to the await of line 360, for
\* i = results.length; `throws` says whether onProgress throws this time,
\* which ends the whole invocation with that exception.
Iterate(b, st, throws, t) ==
    LET i == Len(b.results)
    IN  IF i >= Len(b.tokens)
        THEN [b |-> [b EXCEPT !.pc = "returned"], st |-> [st EXCEPT !.c = IdleCall]]
        ELSE IF b.hasCb /\ throws
        THEN [b |-> [b EXCEPT !.pc = "thrown"], st |-> [st EXCEPT !.c = IdleCall]]
        ELSE [b |-> [b EXCEPT !.progress =
                           IF b.hasCb THEN Append(@, ProgressRecord(b.tokens, i)) ELSE @],
              st |-> BeginCall([st EXCEPT !.c = NewCall(b.tokens[i + 1], b.days, st.made + 1),
                                          !.made = @ + 1], t)]

\* Lines 360-371: the awaited call has returned.
PushResult(b, result) ==
    [b EXCEPT !.results =
        Append(@, IF Truthy(result) THEN result ELSE Placeholder(b.tokens[Len(@) + 1]))]

\* ---------------------------------------------------------------- actions

Init ==
    /\ now = 0
    /\ ticks = 0
    /\ made = 0
    /\ resultCache = EmptyMap
    /\ cache = EmptyMap
    /\ calls = [s \in Slots |-> IdleCall]
    /\ batch = IdleBatch
    /\ prev = NoPrev
    /\ store = NoStore
    /\ chart = NoChart
    /\ form = NoForm

St(s) ==
    [c |-> calls[s], cache |-> cache, rc |-> resultCache, prev |-> prev, made |-> made]

Commit(s, st) ==
    /\ calls' = [calls EXCEPT ![s] = st.c]
    /\ cache' = st.cache
    /\ resultCache' = st.rc
    /\ prev' = st.prev
    /\ made' = st.made

\* The exchange `resp` of endpoint `ep` is over for the call of slot s.
Received(s, ep, resp) == [St(s) EXCEPT !.c.net = Append(@, [ep |-> ep, resp |-> resp])]

InFlight(s) == calls[s].pc \notin {"idle", "done"}

\* Requests are issued one at a time: none is in flight when one starts.
Quiet == batch.pc # "running" /\ \A s \in Slots : ~InFlight(s)

\* Time passes: by the time to live, or by a millisecond less.
TickSteps == {CACHE_TTL - 1, CACHE_TTL}

Tick(d) ==
    /\ ticks < MaxTicks
    /\ now' = now + d
    /\ ticks' = ticks + 1
    /\ UNCHANGED <<made, resultCache, cache, calls, batch, prev>>
    /\ UNCHANGED view

\* AddToken's submit handler (or any other caller) calls
\* fetchTokenMarketCap(token, days).  What is left of the request before is
\* dropped when a request starts.
StartSingle(token, days) ==
    /\ Quiet
    /\ made < MaxCalls
    /\ Commit("single", BeginCall([St("single") EXCEPT !.c = NewCall(token, days, made + 1),
                                                       !.made = made + 1], now))
    /\ batch' = IdleBatch
    /\ UNCHANGED <<now, ticks>>
    /\ UNCHANGED view

\* fetchAllTokensMarketCap(tokens, days, onProgress), up to its first await.
StartBatch(tokens, days, hasCb, throws) ==
    /\ Quiet
    /\ made + Len(tokens) <= MaxCalls
    /\ LET b == [pc |-> "running", tokens |-> tokens, days |-> days, hasCb |-> hasCb,
                 results |-> <<>>, progress |-> <<>>]
           n == Iterate(b, St("batch"), throws, now)
       IN  /\ batch' = n.b
           /\ calls' = [calls EXCEPT !["batch"] = n.st.c, !["single"] = IdleCall]
           /\ cache' = n.st.cache
           /\ resultCache' = n.st.rc
           /\ prev' = n.st.prev
           /\ made' = n.st.made
    /\ UNCHANGED <<now, ticks>>
    /\ UNCHANGED view

\* The batch resumes after `await fetchTokenMarketCap(token, days)`.
BatchResume(throws) ==
    /\ batch.pc = "running"
    /\ calls["batch"].pc = "done"
    /\ LET n == Iterate(PushResult(batch, calls["batch"].ret), St("batch"), throws, now)
       IN  /\ batch' = n.b
           /\ Commit("batch", n.st)
    /\ UNCHANGED <<now, ticks>>
    /\ UNCHANGED view

\* fetchGeckoTerminalMarketCap settles.
GeckoAnswers(s) ==
    /\ calls[s].pc = "gecko"
    /\ \E outcome \in GeckoOutcomes(calls[s].token, now) :
          Commit(s, AfterGecko(St(s), outcome, now))
    /\ UNCHANGED <<now, ticks, batch>>
    /\ UNCHANGED view

\* The exchange of getTokenInfo is over: lines 71-86, then on to the pools.
TokenInfoAnswers(s, resp) ==
    /\ calls[s].pc = "pInfo"
    /\ LET key == TokenInfoKey(calls[s].token.platform, calls[s].token.contract)
           r == StoreResponse(cache, key, resp, now)
       IN  Commit(s, InfoStage([Received(s, "info", resp) EXCEPT !.cache = r.cache], r.value, now))
    /\ UNCHANGED <<now, ticks, batch>>
    /\ UNCHANGED view

\* The exchange of getTokenPools is over: lines 42-57.
PoolsAnswers(s, resp) ==
    /\ calls[s].pc = "pPools"
    /\ LET key == PoolsKey(calls[s].token.platform, calls[s].token.contract)
           r == StoreResponse(cache, key, resp, now)
       IN  Commit(s, PoolsStage([Received(s, "pools", resp) EXCEPT !.cache = r.cache], r.value, now))
    /\ UNCHANGED <<now, ticks, batch>>
    /\ UNCHANGED view

\* The exchange of getPoolOHLCV is over: lines 126-141.
OhlcvAnswers(s, resp) ==
    /\ calls[s].pc = "pOhlcv"
    /\ LET c == calls[s]
           key == OhlcvKey(Network(c.token.platform), c.bestPool.id, c.days)
           r == StoreResponse(cache, key, resp, now)
       IN  Commit(s, OhlcvStage([Received(s, "ohlcv", resp) EXCEPT !.cache = r.cache], r.value, now))
    /\ UNCHANGED <<now, ticks, batch>>
    /\ UNCHANGED view

\* The exchange of getDexScreenerToken is over.
DexScreenerAnswers(s, resp) ==
    /\ calls[s].pc = "ds"
    /\ Commit(s, AfterDexScreener(
                     [Received(s, "pairs", resp) EXCEPT
                          !.c.pair = getDexScreenerToken(calls[s].token.platform, resp)],
                     fetchDexScreenerMarketCap(calls[s].token, resp, now), now))
    /\ UNCHANGED <<now, ticks, batch>>
    /\ UNCHANGED view

\* A clearCache that leaves the map of the DexPaprika module as it is.
ClearCacheResultOnly ==
    /\ Quiet
    /\ resultCache' = EmptyMap
    /\ prev' = IF prev = NoPrev THEN prev ELSE [prev EXCEPT !.cleared = TRUE]
    /\ UNCHANGED <<now, ticks, made, calls, batch, cache>>
    /\ UNCHANGED view

\* clearCache(), called between requests: both maps are emptied.
ClearCache ==
    /\ Quiet
    /\ resultCache' = EmptyMap
    /\ cache' = EmptyMap
    /\ prev' = IF prev = NoPrev THEN prev ELSE [prev EXCEPT !.cleared = TRUE]
    /\ UNCHANGED <<now, ticks, made, calls, batch>>
    /\ UNCHANGED view

\* saveTokens(tokens): the item is written unless setItem throws (quota),
\* which is caught; the list of the caller is read only.
SaveTokens(tokens, quota) ==
    /\ store' = [item |-> IF quota THEN store.item ELSE Item(ToSave(tokens)),
                 op |-> [name |-> "save", tokens |-> tokens, failed |-> quota,
                         threw |-> FALSE, after |-> tokens]]
    /\ UNCHANGED <<core, chart, form>>

\* mergeTokenPreferences(tokens, getSavedTokens())
MergePreferences(tokens, fails) ==
    /\ LET prefs == getSavedTokens(store.item, fails)
       IN  store' = [item |-> store.item,
                     op |-> [name |-> "merge", tokens |-> tokens, prefs |-> prefs,
                             result |-> mergeTokenPreferences(tokens, prefs)]]
    /\ UNCHANGED <<core, chart, form>>

\* The series-update effect of Chart runs for the props tokens and
\* selectedRange, on a chart that was created.
SeriesEffect(tokens, selectedRange) ==
    /\ chart.runs < MaxEffects
    /\ chart' = RunEffect(chart, tokens, selectedRange)
    /\ UNCHANGED <<core, store, form>>

\* The form is submitted with the fields the user has filled in; the button
\* is disabled while a submit is loading.  Lines 354-362.
Submit(platform, address, name, symbol) ==
    /\ form.pc = "idle"
    /\ form.submits < MaxSubmits
    /\ LET f == [form EXCEPT !.platform = platform, !.contractAddress = address,
                             !.customName = name, !.customSymbol = symbol,
                             !.submits = @ + 1, !.added = <<>>, !.tokenData = NULL]
       IN  form' = IF Trim(address) = <<>>
                   THEN [f EXCEPT !.error = "Please enter a contract address"]
                   ELSE [f EXCEPT !.isLoading = TRUE, !.error = "", !.pc = "info"]
    /\ UNCHANGED <<core, store, chart>>

\* getTokenByContract settles: lines 366-404, up to the await of
\* fetchTokenMarketCap when the token was found.
TokenByContractAnswers(outcome, color) ==
    /\ form.pc = "info"
    /\ IF outcome.status = "return" /\ Truthy(outcome.value)
       THEN LET tokenData == TokenDataFound(form, outcome.value, color)
            IN  /\ form' = [form EXCEPT !.pc = "fetch", !.tokenData = tokenData]
                /\ Commit("single",
                          BeginCall([St("single") EXCEPT
                                         !.c = NewCall(tokenData, <<"30">>, made + 1),
                                         !.made = made + 1], now))
                /\ UNCHANGED <<now, ticks, batch>>
       ELSE /\ form' = IF outcome.status = "throw" THEN SubmitFailed(form)
                       ELSE IF form.customName # "" /\ form.customSymbol # ""
                       THEN FinishSubmit(form, TokenDataManual(form, color))
                       ELSE NotFound(form)
            /\ UNCHANGED core
    /\ UNCHANGED <<store, chart>>

\* fetchTokenMarketCap has returned to the handler: lines 383-420.
SubmitResumes ==
    /\ form.pc = "fetch"
    /\ calls["single"].pc = "done"
    /\ LET withData == calls["single"].ret
           tokenData == IF Truthy(withData)
                        THEN Spread(form.tokenData, [data |-> withData.data])
                        ELSE form.tokenData
       IN  form' = FinishSubmit(form, tokenData)
    /\ UNCHANGED <<core, store, chart>>

\* The upstream answers the aggregator is run against: the historical
\* adapter has data when the pool lookup succeeds, the snapshot adapter when
\* its pair lookup does.
CoreTokenInfo == {Ok(InfoBare)}

CorePools == {Throw, Ok(PoolsObject(<<Pool1, Pool2>>))}

CoreOhlcv == {Ok(OhlcvTwo)}

\* With a candle request that fails the historical adapter has no data after
\* a pool lookup that succeeded, and the next call finds the pools cached.
TimedOhlcv == {Throw, Ok(OhlcvTwo)}

CoreDexScreener == {NotOk, Ok(PairsObject(<<Pair(<<"base">>, 5, 50, 70, 2)>>))}

\* With a pair that has neither a market cap nor a price the pair lookup
\* succeeds and the snapshot adapter has no data.
TimedDexScreener ==
    CoreDexScreener \cup {Ok(PairsObject(<<Pair(<<"base">>, 5, 0, 0, 0)>>))}

CoreDays == {<<"7">>}

Answers(ohlcvResponses, pairResponses) ==
    \/ \E s \in Slots : GeckoAnswers(s)
    \/ \E s \in Slots, resp \in CoreTokenInfo : TokenInfoAnswers(s, resp)
    \/ \E s \in Slots, resp \in CorePools : PoolsAnswers(s, resp)
    \/ \E s \in Slots, resp \in ohlcvResponses : OhlcvAnswers(s, resp)
    \/ \E s \in Slots, resp \in pairResponses : DexScreenerAnswers(s, resp)

\* Batches and single fetches, one request at a time, within one instant.
Next ==
    \/ \E token \in Tokens, days \in CoreDays : StartSingle(token, days)
    \/ \E tokens \in TokenLists, days \in CoreDays, hasCb \in BOOLEAN, throws \in BOOLEAN :
          StartBatch(tokens, days, hasCb, throws)
    \/ \E throws \in BOOLEAN : BatchResume(throws)
    \/ Answers(CoreOhlcv, CoreDexScreener)
    \/ ClearCache

Spec == Init /\ [][Next]_vars

\* Single fetches while time passes, between the calls and during them.
StartTimedCall(token, days) == made < TimedCalls /\ StartSingle(token, days)

TimedNext ==
    \/ \E d \in TickSteps : Tick(d)
    \/ \E token \in Tokens, days \in CoreDays : StartTimedCall(token, days)
    \/ Answers(TimedOhlcv, TimedDexScreener)
    \/ ClearCache

TimedSpec == Init /\ [][TimedNext]_vars

\* Single fetches for every day range, against every upstream answer.
StartAdapterCall(token, days) == made < AdapterCalls /\ StartSingle(token, days)

AdapterNext ==
    \/ \E token \in Tokens, days \in DaysSet : StartAdapterCall(token, days)
    \/ \E s \in Slots : GeckoAnswers(s)
    \/ \E s \in Slots, resp \in TokenInfoResponses : TokenInfoAnswers(s, resp)
    \/ \E s \in Slots, resp \in PoolsResponses : PoolsAnswers(s, resp)
    \/ \E s \in Slots, resp \in OhlcvResponses : OhlcvAnswers(s, resp)
    \/ \E s \in Slots, resp \in DexScreenerResponses : DexScreenerAnswers(s, resp)

AdapterSpec == Init /\ [][AdapterNext]_vars

\* Day ranges on both sides of each threshold of getPoolOHLCV and of its cap.
SamplingDays ==
    {<<"1">>, <<"2">>, <<"7">>, <<"8">>, <<"30">>, <<"31">>, <<"366">>, <<"367">>}

StartSamplingCall(token, days) == made < SamplingCalls /\ StartSingle(token, days)

\* Single fetches over the day ranges.
SamplingNext ==
    \/ \E token \in {TokA, TokB}, days \in SamplingDays : StartSamplingCall(token, days)
    \/ Answers(TimedOhlcv, CoreDexScreener)

SamplingSpec == Init /\ [][SamplingNext]_vars

\* Pools whose valuation is not a multiple of their price: a supply of 70/3
\* and one of 45/2.
PoolThirds ==
    [id |-> <<"p3">>, volume_usd |-> 7, price_usd |-> 3,
     tokens |-> <<[id |-> <<"0xa">>, fdv |-> 70]>>]

PoolHalves ==
    [id |-> <<"p4">>, volume_usd |-> 7, price_usd |-> 4,
     tokens |-> <<[id |-> <<"0xa">>, fdv |-> 90]>>]

DerivationPools ==
    {Ok(PoolsObject(<<PoolThirds>>)), Ok(PoolsObject(<<PoolHalves>>)),
     Ok(PoolsObject(<<Pool2>>))}

DerivationTokenInfo == {Throw, Ok(InfoFull), Ok(InfoBare)}

DerivationOhlcv == {Ok(OhlcvTwo), Ok(OhlcvUnusable)}

StartDerivationCall(token, days) == made < DerivationCalls /\ StartSingle(token, days)

\* Single fetches over pools and token infos of several prices and
\* valuations.
DerivationNext ==
    \/ \E token \in {TokA, TokB}, days \in CoreDays : StartDerivationCall(token, days)
    \/ \E s \in Slots : GeckoAnswers(s)
    \/ \E s \in Slots, resp \in DerivationTokenInfo : TokenInfoAnswers(s, resp)
    \/ \E s \in Slots, resp \in DerivationPools : PoolsAnswers(s, resp)
    \/ \E s \in Slots, resp \in DerivationOhlcv : OhlcvAnswers(s, resp)
    \/ \E s \in Slots, resp \in CoreDexScreener : DexScreenerAnswers(s, resp)

DerivationSpec == Init /\ [][DerivationNext]_vars

\* Pair lists of up to MaxPairs pairs, of the chain of the token and of
\* another one, with liquidities that differ, tie and are missing; the
\* market cap tells the pairs apart.
MaxPairs == 3

PairPool ==
    {Pair(<<"base">>, 5, 50, 0, 1), Pair(<<"base">>, 9, 90, 0, 1),
     Pair(<<"base">>, 9, 91, 0, 1), Pair(<<"base">>, 0, 10, 0, 1),
     Pair(<<"ethereum">>, 20, 200, 0, 1)}

PairResponses == {NotOk} \cup {Ok(PairsObject(ps)) : ps \in SeqsUpTo(PairPool, MaxPairs)}

PairCalls == 1

StartPairCall(token, days) == made < PairCalls /\ StartSingle(token, days)

\* Single fetches that reach the snapshot adapter, over the pair lists.
PairNext ==
    \/ \E token \in {TokA, TokB}, days \in CoreDays : StartPairCall(token, days)
    \/ Answers(CoreOhlcv, PairResponses)

PairSpec == Init /\ [][PairNext]_vars

\* Pool lists of up to MaxPools pools with volumes that differ, tie and are
\* missing, and with pools that have no id.
MaxPools == 3

PoolTie == [id |-> <<"p5">>, volume_usd |-> 9, price_usd |-> 0, tokens |-> <<>>]

PoolNoVolume == [id |-> <<"p6">>, volume_usd |-> 0, price_usd |-> 0, tokens |-> <<>>]

PoolNoIdBig == [id |-> <<>>, volume_usd |-> 20, price_usd |-> 0, tokens |-> <<>>]

PoolPool == {Pool1, Pool2, PoolTie, PoolNoVolume, PoolNoId, PoolNoIdBig}

\* A JSON body without a pools field, such as an error object.
NoPoolsObject == [kind |-> "object", pools |-> NULL]

PoolListResponses ==
    {Throw, NotOk, Ok(NoPoolsObject), Ok(Array(<<Pool1, Pool2>>))}
        \cup {Ok(PoolsObject(ps)) : ps \in SeqsUpTo(PoolPool, MaxPools)}

PoolCalls == 1

StartPoolCall(token, days) == made < PoolCalls /\ StartSingle(token, days)

\* Single fetches over the pool lists.
PoolNext ==
    \/ \E days \in CoreDays : StartPoolCall(TokA, days)
    \/ \E s \in Slots : GeckoAnswers(s)
    \/ \E s \in Slots, resp \in CoreTokenInfo : TokenInfoAnswers(s, resp)
    \/ \E s \in Slots, resp \in PoolListResponses : PoolsAnswers(s, resp)
    \/ \E s \in Slots, resp \in CoreOhlcv : OhlcvAnswers(s, resp)
    \/ \E s \in Slots, resp \in CoreDexScreener : DexScreenerAnswers(s, resp)

PoolSpec == Init /\ [][PoolNext]_vars

\* AddToken's submit handler calls fetchTokenMarketCap(token, days) while the
\* batch is suspended inside its own call: the handler runs up to its first
\* await between two resumptions of the batch.
OverlapCalls == 2

StartDuring(token, days) ==
    /\ batch.pc = "running"
    /\ InFlight("batch")
    /\ ~InFlight("single")
    /\ made < OverlapCalls
    /\ Commit("single", BeginCall([St("single") EXCEPT !.c = NewCall(token, days, made + 1),
                                                       !.made = made + 1], now))
    /\ UNCHANGED <<now, ticks, batch>>
    /\ UNCHANGED view

\* A batch of one token and a submit that overlaps it.
OverlapNext ==
    \/ \E token \in {TokA, TokB}, days \in CoreDays :
          StartBatch(<<token>>, days, FALSE, FALSE)
    \/ \E token \in Tokens, days \in CoreDays : StartDuring(token, days)
    \/ BatchResume(FALSE)
    \/ Answers(CoreOhlcv, CoreDexScreener)

OverlapSpec == Init /\ [][OverlapNext]_vars

\* Token lists of the view layer: a token enabled and disabled, a record
\* that carries a fetched series, and a default token without isCustom.
TokAOff == [TokA EXCEPT !.enabled = FALSE]

TokBSeries ==
    Spread(TokB, [data |-> <<[x |-> 10, y |-> 100]>>, currentMarketCap |-> 100,
                  source |-> "dexscreener"])

TokDefault ==
    [id |-> <<"c">>, symbol |-> "C", name |-> "Gamma", color |-> "grey", enabled |-> FALSE]

MaxStored == 2

StoredLists == SeqsUpTo({TokA, TokAOff, TokBSeries, TokDefault}, MaxStored)

\* Token lists are saved and merged with what was saved.
StorageNext ==
    \/ \E tokens \in StoredLists, quota \in BOOLEAN : SaveTokens(tokens, quota)
    \/ \E tokens \in StoredLists, fails \in BOOLEAN : MergePreferences(tokens, fails)

StorageSpec == Init /\ [][StorageNext]_vars

\* Tokens of the chart: one with a point two days old and a recent one,
\* another token of the same symbol, the first one disabled, a token whose
\* fetch gave no point, one that was never fetched and one of another symbol
\* with a point of the same second as one of the first.
ChartA ==
    Spread(TokA, [data |-> <<[x |-> ChartNow - 2 * DAY, y |-> 100],
                             [x |-> ChartNow - 1500, y |-> 200]>>])

ChartA2 ==
    [id |-> <<"a2">>, symbol |-> "A", name |-> "Alpha again", color |-> "green",
     platform |-> <<"solana">>, contract |-> <<"0xd">>, enabled |-> TRUE, isCustom |-> TRUE,
     data |-> <<[x |-> ChartNow - 2500, y |-> 300]>>]

ChartAOff == [ChartA EXCEPT !.enabled = FALSE]

ChartB == Spread(TokB, [data |-> <<>>])

ChartC ==
    [id |-> <<"c">>, symbol |-> "C", name |-> "Gamma", color |-> "grey", enabled |-> TRUE,
     data |-> <<[x |-> ChartNow - 1001, y |-> 400], [x |-> ChartNow - 6 * DAY, y |-> 50]>>]

MaxCharted == 3

\* Token lists of the chart: no two tokens of a list have the same id.
ChartLists ==
    {l \in SeqsUpTo({ChartA, ChartA2, ChartAOff, ChartB, ChartC, TokDefault}, MaxCharted) :
        \A i, j \in 1..Len(l) : i # j => l[i].id # l[j].id}

ChartRanges == {<<"1">>, <<"7">>, <<"max">>}

\* The effect runs for the token lists and ranges.
ChartNext ==
    \E tokens \in ChartLists, selectedRange \in ChartRanges : SeriesEffect(tokens, selectedRange)

ChartSpec == Init /\ [][ChartNext]_vars

\* Addresses typed into the form: none, two that begin with the same eight
\* characters, and one that begins differently.
Addresses == {<<>>, <<"0xabcdef", "01">>, <<"0xabcdef", "02">>, <<"0x123456", "03">>}

\* Name and symbol typed into the form: both or none.
ManualEntries == {[name |-> "", symbol |-> ""], [name |-> "Name", symbol |-> "sym"]}

\* The form is submitted and the requests of the handler are answered.
FormNext ==
    \/ \E address \in Addresses, manual \in ManualEntries :
          Submit(<<"base">>, address, manual.name, manual.symbol)
    \/ \E outcome \in TokenByContractOutcomes, color \in Colors :
          TokenByContractAnswers(outcome, color)
    \/ SubmitResumes
    \/ Answers(CoreOhlcv, CoreDexScreener)

FormSpec == Init /\ [][FormNext]_vars

\* ------------------------------------------------------------- properties

\* The adapters in the order fetchTokenMarketCap tries them.
Priority == <<"geckoterminal", "dexpaprika", "dexscreener">>

\* Every adapter of the chain was invoked and none had a point.
AllFailed(c) == c.log = Priority /\ c.answers = <<FALSE, FALSE, FALSE>>

\* C1 as the specification states it: a completed fetchTokenMarketCap call
\* has returned a record, and when all three adapters returned absent or
\* empty or threw, that record has source 'none' and error true.
C1_AlwaysReturnsRecord ==
    \A s \in Slots :
        calls[s].pc = "done" =>
            /\ Truthy(calls[s].ret)
            /\ AllFailed(calls[s]) =>
                   /\ "error" \in DOMAIN calls[s].ret
                   /\ calls[s].ret.error = TRUE
                   /\ calls[s].ret.source = "none"

\* C1, amended: a completed fetchTokenMarketCap call has returned either a
\* series with at least one point or null, and null exactly when all three
\* adapters were invoked and none answered with a point; an adapter that
\* throws is one that has not answered, and the call goes on.
C1_NullWhenAllFail ==
    \A s \in Slots :
        calls[s].pc = "done" =>
            IF AllFailed(calls[s])
            THEN calls[s].ret = NULL
            ELSE HasData(calls[s].ret)

\* A call that went through the three adapters in vain has returned.
C1_Witness ==
    \E s \in Slots : calls[s].pc = "done" /\ AllFailed(calls[s]) /\ calls[s].ret = NULL

\* The entry of a batch result for a token nothing was found for.
IsPlaceholderOf(r, token) ==
    /\ {"error", "id", "symbol", "name", "platform", "contract"} \subseteq DOMAIN r
    /\ r.error = TRUE
    /\ r.data = <<>>
    /\ Identity(r) = Identity(token)

C3_FallbackOrder ==
    \A s \in Slots :
        calls[s].pc # "idle" =>
            LET c == calls[s]
            IN  /\ Len(c.log) <= Len(Priority)
                /\ c.log = SubSeq(Priority, 1, Len(c.log))
                /\ Len(c.answers) \in {Len(c.log) - 1, Len(c.log)} \cap Nat
                /\ \A i \in 1..Len(c.answers) : c.answers[i] => i = Len(c.log)
                /\ c.pc = "done" /\ ~c.hit /\ Truthy(c.ret) =>
                       c.ret.source = c.log[Len(c.log)]

\* The second adapter answered with points after the first had none.
C3_Witness ==
    \E s \in Slots :
        /\ calls[s].pc = "done"
        /\ calls[s].log = <<"geckoterminal", "dexpaprika">>
        /\ calls[s].answers = <<FALSE, TRUE>>

\* The step in which the call of slot s is made: fetchTokenMarketCap is
\* entered and runs to its first await or to its return.
BeginsCall(s) ==
    /\ made' = made + 1
    /\ calls'[s].pc # "idle"
    /\ calls'[s].seq = made'

\* The map holds an entry for the key that is younger than the time to live.
FreshIn(map, key, t) == key \in DOMAIN map /\ t - map[key].timestamp < CACHE_TTL

\* C4: when fetchTokenMarketCap is called while the result cache holds a
\* valid entry for (token id, days), the call returns in that step with the
\* cached value, has invoked no adapter and has made no upstream exchange.
C4_ValidEntryShortCircuits ==
    [][\A s \in Slots :
          BeginsCall(s) =>
              LET c == calls'[s]
                  key == TokenKey(c.token, c.days)
              IN  FreshIn(resultCache, key, now) =>
                      /\ c.pc = "done"
                      /\ c.ret = resultCache[key].data
                      /\ c.log = <<>>
                      /\ c.net = <<>>
                      /\ resultCache' = resultCache
                      /\ cache' = cache]_vars

\* A call was served from the result cache some time after the entry was
\* stored.
C4_Witness ==
    \E s \in Slots :
        /\ calls[s].pc = "done"
        /\ calls[s].hit
        /\ calls[s].log = <<>>
        /\ now > 0

\* The call made in this step has the key of the call completed before it,
\* which went to the adapters; it is made within the time to live of that
\* call's return and the caches were not cleared in between.
RepeatsPrev(s) ==
    /\ BeginsCall(s)
    /\ prev # NoPrev
    /\ prev.key = TokenKey(calls'[s].token, calls'[s].days)
    /\ prev.upstream
    /\ ~prev.cleared
    /\ now - prev.end < CACHE_TTL

C6_TtlValidity ==
    [][\A s \in Slots :
          /\ BeginsCall(s) =>
                LET c == calls'[s]
                    key == TokenKey(c.token, c.days)
                IN  IF FreshIn(resultCache, key, now)
                    THEN c.hit /\ c.pc = "done" /\ c.ret = resultCache[key].data
                    ELSE ~c.hit /\ c.pc = "gecko" /\ c.log = <<"geckoterminal">>
          /\ calls[s].pc \notin {"idle", "done"} /\ calls'[s].pc = "done" /\ Truthy(calls'[s].ret) =>
                LET c == calls'[s]
                IN  resultCache'[TokenKey(c.token, c.days)] = [data |-> c.ret, timestamp |-> now]
          /\ calls[s].pc \in {"gecko", "pInfo"} /\ calls'[s].pc \notin {"gecko", "pInfo", "done"} =>
                LET c == calls'[s]
                    key == PoolsKey(c.token.platform, c.token.contract)
                IN  c.pc = "pPools" <=> ~FreshIn(cache', key, now)]_vars

\* A call found an entry as old as the time to live, went to the adapters
\* and replaced it with a series stored at the time of its return.
C6_Witness ==
    \E s \in Slots :
        /\ calls[s].pc = "done"
        /\ calls[s].stale
        /\ ~calls[s].hit
        /\ Truthy(calls[s].ret)
        /\ now >= CACHE_TTL
        /\ resultCache[TokenKey(calls[s].token, calls[s].days)].timestamp = now

\* The points are in ascending order of timestamp, and each has a timestamp
\* and a value that are numbers and a value above zero.
WellFormedPoints(data) ==
    /\ \A i \in 1..Len(data) :
          ~isNaN(data[i].x) /\ ~isNaN(data[i].y) /\ data[i].y > 0
    /\ \A i \in 1..Len(data) - 1 : data[i].x <= data[i + 1].x

\* C7 as the specification states it: every series a call returns, from
\* whichever adapter, has its points in ascending order of timestamp and no
\* point with a value of zero or less or a timestamp or value that is not a
\* finite number.
C7_ReturnedSeriesWellFormed ==
    \A s \in Slots :
        calls[s].pc = "done" /\ Truthy(calls[s].ret) =>
            WellFormedPoints(calls[s].ret.data)

\* An exchange of the endpoint came to no JSON body for the call: the
\* transport or the parser threw, or the status was not a success.
Failed(c, ep) ==
    \E i \in 1..Len(c.net) : c.net[i].ep = ep /\ c.net[i].resp.status # "ok"

\* C8 as the specification states it: once the historical adapter has
\* answered, a failure of any of its exchanges (token info, pools, candles)
\* has made it answer null, and likewise for the pair lookup of the snapshot
\* adapter; neither answers with an empty point list.
C8_AnyFailureGivesNull ==
    \A s \in Slots :
        calls[s].pc # "idle" =>
            LET c == calls[s]
            IN  /\ Len(c.answers) >= 2 =>
                      /\ c.paprika = NULL \/ HasData(c.paprika)
                      /\ Failed(c, "info") \/ Failed(c, "pools") \/ Failed(c, "ohlcv") =>
                             c.paprika = NULL
                /\ Len(c.answers) = 3 =>
                      /\ c.screener = NULL \/ HasData(c.screener)
                      /\ Failed(c, "pairs") => c.screener = NULL

\* C8, amended: each of the two adapters answers null or a series with at
\* least one point, never an empty series and never by throwing.  A failed
\* pool lookup makes the historical adapter answer null, a failed pair lookup
\* the snapshot adapter.  A failed token-info lookup alone does not: the
\* series is then derived from the pool.  After a failed candle request the
\* historical adapter answers null unless the token info arrived with a
\* price and a market cap, and then it answers with the single point
\* (time of the answer, market cap).
C8_FailureContainment ==
    \A s \in Slots :
        calls[s].pc # "idle" =>
            LET c == calls[s]
            IN  /\ Len(c.answers) >= 2 =>
                      /\ c.paprika = NULL \/ HasData(c.paprika)
                      /\ Failed(c, "pools") => c.paprika = NULL
                      /\ Failed(c, "ohlcv") /\ Failed(c, "info") => c.paprika = NULL
                      /\ Failed(c, "ohlcv") /\ c.paprika # NULL =>
                             /\ Len(c.paprika.data) = 1
                             /\ c.paprika.data[1].x = c.paprika.lastUpdated
                             /\ c.paprika.data[1].y = c.paprika.currentMarketCap
                             /\ c.paprika.currentMarketCap > 0
                             /\ c.paprika.currentPrice > 0
                /\ Len(c.answers) = 3 =>
                      /\ c.screener = NULL \/ HasData(c.screener)
                      /\ Failed(c, "pairs") => c.screener = NULL

\* The candle request failed and the historical adapter answered with the
\* snapshot point.
C8_Witness ==
    \E s \in Slots :
        /\ calls[s].pc # "idle"
        /\ Len(calls[s].answers) >= 2
        /\ Failed(calls[s], "ohlcv")
        /\ calls[s].paprika # NULL
        /\ Len(calls[s].paprika.data) = 1

C10_BatchNeverAborts == batch.pc # "thrown"

\* The caches were cleared after the last call completed.
ClearedSince == prev # NoPrev /\ prev.cleared

\* The endpoints of the upstream exchanges a call went through, in order.
Endpoints(c) == [i \in 1..Len(c.net) |-> c.net[i].ep]

\* C11: between a clearCache and the next fetch the result cache and the
\* cache of the DexPaprika module are empty (the DexScreener module keeps
\* none); a clearCache made then changes nothing; and the first fetch after a
\* clearCache goes to the adapters, the historical adapter fetching the token
\* info, the pools and the candles anew when it answers with a series.
C11_ClearCacheEmptiesAll ==
    /\ [](Quiet /\ ClearedSince => resultCache = EmptyMap /\ cache = EmptyMap)
    /\ [][/\ Quiet /\ ClearedSince /\ UNCHANGED <<now, made, calls, batch>> =>
                UNCHANGED vars
          /\ \A s \in Slots :
                /\ BeginsCall(s) /\ ClearedSince =>
                      calls'[s].pc = "gecko" /\ calls'[s].log = <<"geckoterminal">>
                /\ ClearedSince /\ InFlight(s) /\ calls'[s].pc \notin {"idle", "gecko"}
                     /\ Len(calls'[s].answers) >= 2 /\ calls'[s].answers[2] =>
                      Endpoints(calls'[s]) = <<"info", "pools", "ohlcv">>]_vars

\* A token whose series had been cached is fetched upstream again after a
\* clearCache.
C11_Witness ==
    /\ ClearedSince
    /\ prev.ok
    /\ \E s \in Slots :
          /\ calls[s].pc = "gecko"
          /\ TokenKey(calls[s].token, calls[s].days) = prev.key

\* C12: the candle request in flight for a number of days n has interval 5m
\* and limit 288 for n <= 1, 1h and min(24n, 366) for 1 < n <= 7, 4h and
\* min(6n, 366) for 7 < n <= 30, 24h and min(n, 366) for n > 30; for n = 1,
\* 7, 30, 31 that is (5m, 288), (1h, 168), (4h, 180), (24h, 31); the limit
\* is never above 366.
C12_SamplingThresholds ==
    \A s \in Slots :
        calls[s].pc = "pOhlcv" /\ ~isNaN(DaysNumber(calls[s].days)) =>
            LET n == DaysNumber(calls[s].days)
                r == calls[s].req
                got == <<r.interval, r.limit>>
            IN  /\ n <= 1 => got = <<"5m", 288>>
                /\ 1 < n /\ n <= 7 => got = <<"1h", IF n * 24 < 366 THEN n * 24 ELSE 366>>
                /\ 7 < n /\ n <= 30 => got = <<"4h", IF n * 6 < 366 THEN n * 6 ELSE 366>>
                /\ 30 < n => got = <<"24h", IF n < 366 THEN n ELSE 366>>
                /\ n = 1 => got = <<"5m", 288>>
                /\ n = 7 => got = <<"1h", 168>>
                /\ n = 30 => got = <<"4h", 180>>
                /\ n = 31 => got = <<"24h", 31>>
                /\ r.limit <= 366

\* A candle request for 30 days is in flight, with 180 samples of four hours.
C12_Witness ==
    \E s \in Slots :
        /\ calls[s].pc = "pOhlcv"
        /\ calls[s].days = <<"30">>
        /\ calls[s].req.interval = "4h"
        /\ calls[s].req.limit = 180

\* The pool lookup of the call was answered with a list that has a pool to
\* fetch candles for.
PoolSelected(c) ==
    \E i \in 1..Len(c.net) :
        /\ c.net[i].ep = "pools"
        /\ c.net[i].resp.status = "ok"
        /\ IsNonEmptyArray(PoolsOf(c.net[i].resp.json))
        /\ BestPool(PoolsOf(c.net[i].resp.json).items).id # <<>>

Derived(c) ==
    /\ Len(c.answers) >= 2
    /\ Endpoints(c) \in {<<"info", "pools", "ohlcv">>,
                         <<"info", "pools", "ohlcv", "pairs">>}
    /\ c.paprika # NULL
    /\ "poolAddress" \in DOMAIN c.paprika

\* y is the number p * val / ref rounded to the nearest whole number, halves up.
IsRounded(y, p, val, ref) ==
    /\ 2 * ref * y - ref <= 2 * p * val
    /\ 2 * p * val < 2 * ref * y + ref

\* C14: in a series derived from candles, with the reference price and the
\* valuation the adapter took from the pool and the token info, the points
\* are those of the candles with a close price p and a time, each with the
\* value round(p * valuation / referencePrice) when the reference price and
\* so the supply are above zero and round(p * 1e9) when the supply is
\* unknown or zero; candles whose value is not above zero give no point.
C14_MarketCapDerivation ==
    \A s \in Slots :
        calls[s].pc # "idle" /\ Derived(calls[s]) =>
            LET c == calls[s]
                info == IF c.net[1].resp.status = "ok" THEN c.net[1].resp.json ELSE NULL
                pool == BestPool(PoolsOf(c.net[2].resp.json).items)
                candles == c.net[3].resp.json.items
                ref == CurrentPrice(pool, info)
                val == Fdv(pool, info, c.token.contract)
                known == ref > 0 /\ val > 0
                Value(y, p) ==
                    IF known THEN IsRounded(y, p, val, ref) ELSE y = p * 1000000000
                Time(k) == OrNum(candles[k].time_close, candles[k].time_open)
            IN  /\ \A i \in 1..Len(c.paprika.data) :
                      \E k \in 1..Len(candles) :
                          /\ ~isNaN(candles[k].close)
                          /\ c.paprika.data[i].x = Time(k)
                          /\ Value(c.paprika.data[i].y, candles[k].close)
                /\ \A k \in 1..Len(candles) :
                      ~isNaN(candles[k].close) /\ candles[k].close > 0 /\ Time(k) # 0 =>
                          \E i \in 1..Len(c.paprika.data) : c.paprika.data[i].x = Time(k)

\* A series was derived with a supply of 70/3: the close prices 1 and 2 gave
\* the values 23 and 47.
C14_Witness ==
    \E s \in Slots :
        /\ calls[s].pc # "idle"
        /\ Derived(calls[s])
        /\ calls[s].paprika.poolAddress = <<"p3">>
        /\ calls[s].paprika.data = <<[x |-> 10, y |-> 23], [x |-> 20, y |-> 47]>>

\* C15 as the specification states it, for the result cache: a call served
\* from the cache has been given a value stored for its own query, that is
\* for a token of the same platform and contract and for the same day range
\* (seen on the records the DexPaprika and DexScreener adapters build, which
\* carry the token they were built for).
C15_LookupReturnsOwnQuery ==
    \A s \in Slots :
        (/\ calls[s].pc = "done"
         /\ calls[s].hit
         /\ calls[s].ret.source \in {"dexpaprika", "dexscreener"})
        => /\ calls[s].ret.platform = calls[s].token.platform
           /\ calls[s].ret.contract = calls[s].token.contract

\* The call of slot s is for the token and day range of the call completed
\* before it, within the time to live of that call's return and with no
\* clearCache in between.
RepeatsRequest(s) ==
    /\ prev # NoPrev
    /\ calls'[s].pc # "idle"
    /\ prev.platform = calls'[s].token.platform
    /\ prev.contract = calls'[s].token.contract
    /\ prev.key = TokenKey(calls'[s].token, calls'[s].days)
    /\ ~prev.cleared
    /\ now - prev.end < CACHE_TTL

\* C16 as the specification states it, for the snapshot adapter: after a
\* request whose pair lookup was answered with a JSON body, a repeated
\* request for the same token and range within the time to live sends no
\* new pair lookup.
C16_NoRepeatedPairLookup ==
    [][\A s \in Slots :
          RepeatsRequest(s) /\ "pairs" \in prev.okEps =>
              ~(calls[s].pc # "ds" /\ calls'[s].pc = "ds")]_vars

\* The token-info lookup of the call was answered with a price and a market
\* cap: tokenInfo?.price_usd && tokenInfo?.market_cap.
LiveFields(c) ==
    \E i \in 1..Len(c.net) :
        /\ c.net[i].ep = "info"
        /\ c.net[i].resp.status = "ok"
        /\ OrNum(c.net[i].resp.json.price_usd, 0) # 0
        /\ OrNum(c.net[i].resp.json.market_cap, 0) # 0

\* C17 as the specification states it: once the historical adapter has
\* answered after its candle request, whether that brought no candles or
\* candles that gave no usable point, it has answered with a series whenever
\* the token info carried a live price and market cap.
C17_SnapshotWheneverLiveFields ==
    \A s \in Slots :
        (/\ calls[s].pc # "idle"
         /\ Len(calls[s].answers) >= 2
         /\ \E i \in 1..Len(calls[s].net) : calls[s].net[i].ep = "ohlcv"
         /\ LiveFields(calls[s]))
        => HasData(calls[s].paprika)

\* C18: once the pair lookup of a call was answered with a JSON body,
\* getDexScreenerToken has returned null for an empty pair list; else, when
\* some pair has the chain of the token, one of those pairs whose liquidity
\* (a missing one counting as 0) no other pair of the chain exceeds; else
\* the first pair of the list.
C18_PairSelection ==
    \A s \in Slots :
        calls[s].pc # "idle" =>
            \A n \in 1..Len(calls[s].net) :
                calls[s].net[n].ep = "pairs" /\ calls[s].net[n].resp.status = "ok" =>
                    LET c == calls[s]
                        pairs == c.net[n].resp.json.pairs
                        ofChain == {i \in 1..Len(pairs) :
                                       pairs[i].chainId = Chain(c.token.platform)}
                        Liquidity(i) == OrNum(pairs[i].liquidity, 0)
                    IN  /\ Len(pairs) = 0 => c.pair = NULL
                        /\ ofChain # {} =>
                               \E i \in ofChain :
                                   /\ c.pair = Spread(pairs[i], [kind |-> "pair"])
                                   /\ \A j \in ofChain : Liquidity(j) <= Liquidity(i)
                        /\ Len(pairs) > 0 /\ ofChain = {} =>
                               c.pair = Spread(pairs[1], [kind |-> "pair"])

\* The pair list began with a pair of another chain of liquidity 20 and a
\* pair of the chain of liquidity 5, and the pair of the chain of liquidity 9
\* behind them was returned.
C18_Witness ==
    \E s \in Slots :
        /\ calls[s].pc = "done"
        /\ Len(calls[s].net) > 0
        /\ calls[s].net[Len(calls[s].net)].ep = "pairs"
        /\ calls[s].net[Len(calls[s].net)].resp =
               Ok(PairsObject(<<Pair(<<"ethereum">>, 20, 200, 0, 1),
                                Pair(<<"base">>, 5, 50, 0, 1),
                                Pair(<<"base">>, 9, 90, 0, 1)>>))
        /\ calls[s].token = TokA
        /\ calls[s].pair.marketCap = 90

\* C19: once the pool lookup of a call was answered, with the pool list
\* being poolsResponse.pools or the body itself: when the list is absent,
\* not a list or empty, or its earliest pool of greatest volume (a missing
\* volume counting as 0) has no id, the adapter has answered null, and no
\* candle request is in flight or was made; otherwise the candle request of
\* the call is for the id of that pool, and so is the series built from its
\* answer.
C19_PoolSelection ==
    \A s \in Slots :
        calls[s].pc # "idle" =>
            \A n \in 1..Len(calls[s].net) :
                calls[s].net[n].ep = "pools" =>
                    LET c == calls[s]
                        resp == c.net[n].resp
                        pools == IF resp.status = "ok" THEN PoolsOf(resp.json) ELSE NULL
                        usable == IsNonEmptyArray(pools)
                        Volume(i) == OrNum(pools.items[i].volume_usd, 0)
                        EarliestMax(i) ==
                            /\ \A j \in 1..Len(pools.items) : Volume(j) <= Volume(i)
                            /\ \A j \in 1..(i - 1) : Volume(j) < Volume(i)
                        requested == \E m \in 1..Len(c.net) : c.net[m].ep = "ohlcv"
                        selected == usable /\ \E i \in 1..Len(pools.items) :
                                        EarliestMax(i) /\ pools.items[i].id # <<>>
                    IN  /\ ~selected =>
                              /\ Len(c.answers) >= 2 /\ c.paprika = NULL
                              /\ c.pc # "pOhlcv" /\ ~requested
                        /\ selected =>
                              \E i \in 1..Len(pools.items) :
                                  /\ EarliestMax(i)
                                  /\ \/ c.pc = "pOhlcv" /\ c.req.pool = pools.items[i].id
                                     \/ /\ requested
                                        /\ Len(c.answers) >= 2
                                        /\ c.paprika # NULL =>
                                               c.paprika.poolAddress = pools.items[i].id

\* Of three pools with the volumes 5, 9 and 9 the candle request is for the
\* second.
C19_Witness ==
    \E s \in Slots :
        /\ calls[s].pc = "pOhlcv"
        /\ calls[s].net[Len(calls[s].net)].resp = Ok(PoolsObject(<<Pool1, Pool2, PoolTie>>))
        /\ calls[s].req.pool = <<"p2">>

\* What the k-th adapter of the priority order returned to the call.
AdapterRecord(c, k) == IF k = 1 THEN c.gecko ELSE IF k = 2 THEN c.paprika ELSE c.screener

\* C20: in the step in which a call that was not served from the cache
\* returns a record, the adapters it invoked are the first k of the priority
\* order, the first k - 1 answered without a point, the record returned is
\* the one the k-th returned, whole, its source field names the k-th, and
\* the result cache now holds that record under the key of the call, with
\* the time of the return.
C20_FirstSuccessWins ==
    [][\A s \in Slots :
          (/\ calls[s].pc \notin {"idle", "done"}
           /\ calls'[s].pc = "done"
           /\ ~calls'[s].hit
           /\ calls'[s].ret # NULL)
          => LET c == calls'[s]
                 k == Len(c.answers)
                 key == TokenKey(c.token, c.days)
             IN  /\ k \in 1..3
                 /\ c.log = SubSeq(Priority, 1, k)
                 /\ \A j \in 1..(k - 1) : ~c.answers[j] /\ ~HasData(AdapterRecord(c, j))
                 /\ c.answers[k] /\ HasData(AdapterRecord(c, k))
                 /\ c.ret = AdapterRecord(c, k)
                 /\ c.ret.source = Priority[k]
                 /\ key \in DOMAIN resultCache'
                 /\ resultCache'[key] = [data |-> c.ret, timestamp |-> now]]_vars

\* A call returned the record of the second adapter after the first had
\* answered with an empty series, and the result cache holds that record.
C20_Witness ==
    \E s \in Slots :
        /\ calls[s].pc = "done"
        /\ ~calls[s].hit
        /\ calls[s].answers = <<FALSE, TRUE>>
        /\ calls[s].gecko # NULL
        /\ calls[s].ret = calls[s].paprika
        /\ TokenKey(calls[s].token, calls[s].days) \in DOMAIN resultCache
        /\ resultCache[TokenKey(calls[s].token, calls[s].days)].data = calls[s].ret

\* C22 as the specification states it: of two calls for the same token id
\* and day range that are in flight at the same time, at most one has
\* invoked an adapter.
C22_OverlappingCallsShareUpstream ==
    \A s, t \in Slots :
        (/\ s # t
         /\ InFlight(s)
         /\ InFlight(t)
         /\ TokenKey(calls[s].token, calls[s].days) = TokenKey(calls[t].token, calls[t].days))
        => calls[s].log = <<>> \/ calls[t].log = <<>>

\* The key under which the answer of endpoint ep is stored for the call c.
EndpointKey(c, ep) ==
    IF ep = "info" THEN TokenInfoKey(c.token.platform, c.token.contract)
    ELSE IF ep = "pools" THEN PoolsKey(c.token.platform, c.token.contract)
    ELSE OhlcvKey(Network(c.token.platform), c.bestPool.id, c.days)

\* The call of slot s receives an answer with a JSON body from one of the
\* endpoints of the historical adapter in this step.
ReceivesOk(s) ==
    /\ calls[s].pc \in {"pInfo", "pPools", "pOhlcv"}
    /\ Len(calls'[s].net) = Len(calls[s].net) + 1
    /\ calls'[s].net[Len(calls'[s].net)].resp.status = "ok"

\* The call of slot s returns a series that an adapter gave it in this step.
ReturnsFetched(s) ==
    /\ calls[s].pc \notin {"idle", "done"}
    /\ calls'[s].pc = "done"
    /\ ~calls'[s].hit
    /\ Truthy(calls'[s].ret)

\* C23: the step in which a call begins, whether its lookup hits, misses or
\* finds an expired entry, leaves both maps as they are, and so does the
\* passing of time.  The result cache changes only by a clearCache, which
\* empties it, or by the setCache of a call that returns a series fetched
\* from an adapter; the map of the historical adapter only by a clearCache
\* or by the setCache that follows an answer with a JSON body; a setCache
\* writes the one entry of its key and leaves the others.
C23_LazyExpiryNoEviction ==
    [][/\ (\E s \in Slots : BeginsCall(s)) \/ now' # now =>
             resultCache' = resultCache /\ cache' = cache
       /\ resultCache' # resultCache =>
             \/ resultCache' = EmptyMap /\ calls' = calls
             \/ \E s \in Slots :
                   /\ ReturnsFetched(s)
                   /\ resultCache' = setCache(resultCache,
                                              TokenKey(calls'[s].token, calls'[s].days),
                                              calls'[s].ret, now)
       /\ cache' # cache =>
             \/ cache' = EmptyMap /\ calls' = calls
             \/ \E s \in Slots :
                   /\ ReceivesOk(s)
                   /\ LET last == calls'[s].net[Len(calls'[s].net)]
                      IN  cache' = setCache(cache, EndpointKey(calls[s], last.ep),
                                            last.resp.json, now)]_vars

\* A call found an entry as old as the time to live and is at its first
\* adapter; the entry is in the map as it was stored.
C23_Witness ==
    \E s \in Slots :
        /\ calls[s].pc = "gecko"
        /\ calls[s].stale
        /\ TokenKey(calls[s].token, calls[s].days) \in DOMAIN resultCache
        /\ now - resultCache[TokenKey(calls[s].token, calls[s].days)].timestamp >= CACHE_TTL

\* The fields of a token record.
TokenFields == {"id", "symbol", "name", "color", "platform", "contract", "enabled", "isCustom"}

\* C24 as the specification states it: the series a call has returned
\* carries the token fields of the token argument of that call, whether it
\* was fetched or served from the result cache (seen on the records the
\* DexPaprika and DexScreener adapters build by spreading the token).
C24_ReturnedRecordCarriesArgument ==
    \A s \in Slots :
        (/\ calls[s].pc = "done"
         /\ Truthy(calls[s].ret)
         /\ calls[s].ret.source \in {"dexpaprika", "dexscreener"})
        => \A f \in TokenFields : calls[s].ret[f] = calls[s].token[f]

\* The names the adapters give as source.
Providers == {Priority[k] : k \in 1..Len(Priority)}

\* C25: every entry of the result cache holds a series with at least one
\* point whose source is one of the three providers; and a call that repeats
\* the request of a call that went to the adapters and returned no series
\* goes to the first adapter again.
C25_OnlySeriesStored ==
    /\ [](\A key \in DOMAIN resultCache :
             /\ HasData(resultCache[key].data)
             /\ resultCache[key].data.source \in Providers)
    /\ [][\A s \in Slots :
             RepeatsPrev(s) /\ ~prev.ok =>
                 /\ ~calls'[s].hit
                 /\ calls'[s].pc = "gecko"
                 /\ calls'[s].log = <<"geckoterminal">>]_vars

\* A call has returned null after the three adapters failed; the result
\* cache holds the series of another request and nothing under the key of
\* the failed one.
C25_Witness ==
    \E s \in Slots :
        /\ calls[s].pc = "done"
        /\ AllFailed(calls[s])
        /\ calls[s].ret = NULL
        /\ resultCache # EmptyMap
        /\ TokenKey(calls[s].token, calls[s].days) \notin DOMAIN resultCache

\* C21: after saveTokens(tokens), which does not throw and leaves the list
\* of the caller as it was, the item written (when the write succeeded) is a
\* list of the length of tokens whose i-th record has the fields id, symbol,
\* name, color, enabled and isCustom and no other, with the values of the
\* i-th token and isCustom false where the token has none.
C21_SavedFields ==
    store.op.name = "save" =>
        /\ ~store.op.threw
        /\ store.op.after = store.op.tokens
        /\ ~store.op.failed =>
               /\ store.item.kind = "json"
               /\ Len(store.item.list) = Len(store.op.tokens)
               /\ \A i \in 1..Len(store.op.tokens) :
                     LET t == store.op.tokens[i]
                         r == store.item.list[i]
                     IN  /\ DOMAIN r = PrefFields
                         /\ \A f \in PrefFields \ {"isCustom"} : r[f] = t[f]
                         /\ r.isCustom = IF "isCustom" \in DOMAIN t THEN t.isCustom ELSE FALSE

\* A record with a series and a default token without isCustom were saved.
C21_Witness ==
    /\ store.op.name = "save"
    /\ ~store.op.failed
    /\ store.op.tokens = <<TokBSeries, TokDefault>>
    /\ store.item.list[2].isCustom = FALSE

\* C26: mergeTokenPreferences(tokens, savedPrefs) returns tokens when
\* savedPrefs is null; otherwise a list of the length of tokens whose i-th
\* record has the fields and values of the i-th token except for enabled,
\* which is that of the last saved preference with the id of the token; a
\* token whose id no preference has is returned as it is.
C26_MergeChangesEnabledOnly ==
    store.op.name = "merge" =>
        LET tokens == store.op.tokens
            result == store.op.result
        IN  IF store.op.prefs = NoItem THEN result = tokens
            ELSE LET prefs == store.op.prefs.list
                     WithId(id) == {n \in 1..Len(prefs) : prefs[n].id = id}
                 IN  /\ Len(result) = Len(tokens)
                     /\ \A i \in 1..Len(tokens) :
                           /\ DOMAIN result[i] = DOMAIN tokens[i]
                           /\ \A f \in DOMAIN tokens[i] \ {"enabled"} :
                                 result[i][f] = tokens[i][f]
                           /\ IF WithId(tokens[i].id) = {} THEN result[i] = tokens[i]
                              ELSE \E n \in WithId(tokens[i].id) :
                                      /\ \A m \in WithId(tokens[i].id) : m <= n
                                      /\ result[i].enabled = prefs[n].enabled

\* Two preferences of the id a were saved, enabled first and disabled last;
\* the enabled token a and a token without preference were merged: a is
\* disabled and the other is as it was.
C26_Witness ==
    /\ store.op.name = "merge"
    /\ store.op.prefs # NoItem
    /\ store.op.prefs.list = ToSave(<<TokA, TokAOff>>)
    /\ store.op.tokens = <<TokA, TokBSeries>>
    /\ store.op.result = <<TokAOff, TokBSeries>>

\* C27 as the specification states it: after a run of the effect the chart
\* has as many line series as the run had enabled tokens with data, and for
\* each of these tokens a series that shows its points of the range.
C27_OneSeriesPerEnabledToken ==
    chart.runs > 0 =>
        /\ Cardinality(DOMAIN chart.series) = Len(chart.enabled)
        /\ \A i \in 1..Len(chart.enabled) :
              \E sid \in DOMAIN chart.series :
                  chart.series[sid].data =
                      convertData(filterDataByRange(chart.enabled[i].data, chart.range))

\* C28 as the specification states it, for the ids the handler builds from
\* platform and address: of the tokens the submits have built with such an
\* id, two of the same platform with different contract addresses have
\* different ids.
C28_DistinctAddressesDistinctIds ==
    \A a, b \in form.seen :
        (/\ a.id = FallbackId(a.platform, a.contract)
         /\ b.id = FallbackId(b.platform, b.contract)
         /\ a.platform = b.platform
         /\ a.contract # b.contract)
        => a.id # b.id

====
